---- MODULE Spec2Model ----
(***************************************************************************)
(* Settlement pipeline of fluxapay_backend: the payment monitor            *)
(* (services/paymentMonitor.service.ts) and the sweep service              *)
(* (services/sweep.service.ts, routes/sweep.route.ts), run against a       *)
(* Stellar ledger (Horizon) and the Payment table (Prisma).                *)
(*                                                                         *)
(* Every `await` of the code is a point where other ticks, other sweep runs*)
(* and the ledger may act, so each awaited call is one action.             *)
(* Amounts are whole USDC units; a paging token is a positive integer, 0 is*)
(* null / undefined; a transaction hash is the index of its record in the  *)
(* history of the custody address.                                         *)
(***************************************************************************)
EXTENDS Integers, Sequences, FiniteSets, TLC

\* ------------------------------------------------------------------ bounds
MaxTransfers == 3      \* incoming transfers the ledger accepts per address
MaxClock == 1          \* the clock runs 0..MaxClock
ExpiresAt == 1         \* expiration of every payment
MaxCount == 2          \* cap of the counters of dispatches and events
MaxTimers == 2         \* setInterval calls of startPaymentMonitor

\* --------------------------------------------------------------- constants
PAGE_LIMIT == 10               \* .limit(10)
SWEEP_BATCH_LIMIT == 200       \* process.env.SWEEP_BATCH_LIMIT || "200"
MAX_RETRIES == 3               \* attempts of one verify_payment call
MAX_POLLS == 15                \* retries < 15: polls of getTransaction after the first
MAX_AUDIT_ATTEMPTS == 3        \* maxAttempts of safeAuditLog

Payments == {"p1", "p2"}
Ticks == {"t1", "t2"}
Sweeps == {"s1", "s2"}
TransferAmounts == {40, 50, 60, 100}
LimitInputs == {0, 1}          \* options.limit; 0 stands for undefined
FirstTokens == {9, 10}         \* "9" < "10" as numbers, "9" > "10" as strings
AmountInputs == {0, 100}       \* Payment.amount of a row; 0 is not a valid amount
ForeignAddress == "GX"         \* a public key the wallet derives for no payment

VARIABLES
    rows,         \* the payments that exist in the Payment table
    db,           \* Payment table: p -> row
    history,      \* ledger: p -> records of the custody address, oldest first
    firstToken,   \* ledger: paging token of the first record of an address
    clock,        \* wall clock
    tick,         \* t -> locals of one runPaymentMonitorTick call
    sweep,        \* s -> locals of one sweepPaidPayments call
    verifyCalls,  \* p -> paymentContractService.verify_payment calls (capped)
    events,       \* p -> PAYMENT_CONFIRMED events emitted (capped)
    fresh,        \* p -> ticks whose copy of the row is the row as last written
    observed,     \* p -> a tick ran start to end, without error, on this ledger
    resubmitted,  \* p -> a sweep was submitted after the ledger accepted one
    calls,        \* the verify_payment calls dispatched, in the order of dispatch
    manual,       \* p -> manual-intervention signals logged (capped)
    contractId,   \* PAYMENT_CONTRACT_ID is configured
    audit,        \* s -> the audit trail of the run and whether it returned
    monitor       \* monitorTimer and the intervals of startPaymentMonitor

vars == <<rows, db, history, firstToken, clock, tick, sweep, verifyCalls, events, fresh, observed,
          resubmitted, calls, manual, contractId, audit, monitor>>

\* Payment.amount and Payment.expiration, set when the payment is created.
Amount(p) == db[p].amount
Expiration(p) == db[p].expiration

\* ------------------------------------------------------------------ helpers
Min(a, b) == IF a < b THEN a ELSE b

\* Every way to list the finite set S once each.
Orderings(S) ==
    {q \in [1..Cardinality(S) -> S] : \A i, j \in 1..Cardinality(S) : q[i] = q[j] => i = j}

TakeAll(q, n) == q

\* The first n elements of q: .limit(n), take: n.
Take(q, n) == IF Len(q) <= n THEN q ELSE SubSeq(q, 1, n)

\* The decimal digits of n, as the string of a paging token.
RECURSIVE Digits(_)
Digits(n) == IF n < 10 THEN <<n>> ELSE Append(Digits(n \div 10), n % 10)

\* a > b on strings (JavaScript compares code units, left to right).
RECURSIVE StrGreater(_, _)
StrGreater(a, b) ==
    IF a = <<>> THEN FALSE
    ELSE IF b = <<>> THEN TRUE
    ELSE IF Head(a) # Head(b) THEN Head(a) > Head(b)
    ELSE StrGreater(Tail(a), Tail(b))

\* record.paging_token > latestPagingToken, both strings of digits.
TokenGreater(a, b) == StrGreater(Digits(a), Digits(b))

\* ------------------------------------------------------------------- ledger
\* A record of an address: kind "in" is an incoming USDC payment, "out" the
\* USDC payment of a sweep to the vault, "other" a payment in another asset.
\* The paging token of the i-th record; tokens grow with the ledger.
PagingToken(i) == firstToken + i - 1

\* account.balances: the USDC balance of the custody address.
RECURSIVE BalanceOf(_)
BalanceOf(h) ==
    IF h = <<>> THEN 0
    ELSE LET r == h[Len(h)]
             rest == BalanceOf(SubSeq(h, 1, Len(h) - 1))
         IN  IF r.kind = "in" THEN rest + r.amount
             ELSE IF r.kind = "out" THEN rest - r.amount
             ELSE rest

Balance(p) == BalanceOf(history[p])

\* payments().forAccount(address).order('desc').limit(10)[.cursor(token)]:
\* Horizon pages in the direction of the order, so with order desc the page
\* holds the records that precede the cursor, newest first. The result is the
\* sequence of record indexes.
RECURSIVE DescBelow(_, _)
DescBelow(n, cursor) ==
    IF n = 0 THEN <<>>
    ELSE IF cursor = 0 \/ PagingToken(n) < cursor
         THEN <<n>> \o DescBelow(n - 1, cursor)
         ELSE DescBelow(n - 1, cursor)

HistoryPage(p, cursor) == Take(DescBelow(Len(history[p]), cursor), PAGE_LIMIT)

IsAnyRecord(r) == TRUE

\* record.type === 'payment' && asset_type credit_alphanum4 && USDC && issuer
IsUsdcPayment(r) == r.kind \in {"in", "out"}

\* The loop over transactions.records: the paging token kept.
RECURSIVE LatestToken(_, _)
LatestToken(page, latest) ==
    IF page = <<>> THEN latest
    ELSE LET tok == PagingToken(Head(page))
         IN  IF latest = 0 \/ TokenGreater(tok, latest)
             THEN LatestToken(Tail(page), tok)
             ELSE LatestToken(Tail(page), latest)

\* The loop over transactions.records: the hash of the first matching record.
RECURSIVE FirstUsdcHash(_, _)
FirstUsdcHash(p, page) ==
    IF page = <<>> THEN 0
    ELSE IF IsUsdcPayment(history[p][Head(page)]) THEN Head(page)
    ELSE FirstUsdcHash(p, Tail(page))

ClassifyExactAsPartial(totalReceived, expectedAmount) ==
    IF totalReceived > expectedAmount THEN "overpaid"
    ELSE IF totalReceived > 0 THEN "partially_paid"
    ELSE "none"

\* newStatus of the tick; "none" is undefined.
Classify(totalReceived, expectedAmount) ==
    IF totalReceived >= expectedAmount
    THEN (IF totalReceived > expectedAmount THEN "overpaid" ELSE "confirmed")
    ELSE IF totalReceived > 0 THEN "partially_paid"
    ELSE "none"

\* status: { in: [...] } of updateMany and of findMany.
ExpirableStatusesWithConfirmed == {"pending", "partially_paid", "confirmed"}
ExpirableStatuses == {"pending", "partially_paid"}
MonitoredStatusesWithConfirmed == {"pending", "partially_paid", "confirmed"}
MonitoredStatuses == {"pending", "partially_paid"}
SettledStatuses == {"confirmed", "overpaid"}

\* ------------------------------------------------------------ initial state
IdleTick ==
    [pc |-> "idle", now |-> 0, queue |-> <<>>, totalReceived |-> 0,
     latestPagingToken |-> 0, latestTxHash |-> 0,
     settled |-> FALSE, verified |-> FALSE, emitted |-> FALSE, err |-> FALSE,
     caught |-> "none", reported |-> FALSE, clean |-> {}]

\* let monitorTimer = null: timer is monitorTimer (0 for null), active the
\* intervals set and not cleared, made the setInterval calls so far, stopped
\* whether stopPaymentMonitor returned and startPaymentMonitor was not
\* called since.
IdleMonitor == [timer |-> 0, active |-> {}, made |-> 0, stopped |-> FALSE]

IdleSweep ==
    [pc |-> "idle", dryRun |-> FALSE, limit |-> 0, queue |-> <<>>, hash |-> 0,
     addressesSwept |-> 0, total |-> 0, txHashes |-> <<>>, skipped |-> <<>>,
     selected |-> {}, submitted |-> {}]

\* The audit trail of a sweep run: stage "running" from the start of an
\* audited run to its return; log is the outcome of logSweepTrigger,
\* completion the outcome of updateSweepCompletion.
NoEntry == [state |-> "none", addresses_swept |-> 0, total_amount |-> 0,
            failure_reason |-> <<>>]

\* safeAuditLog before its first try: what it returns, the tries made, the
\* errors logged, the waits in ms, the metrics emitted, whether it threw.
NoWrapper == [result |-> "none", tries |-> 0, logged |-> 0, waits |-> <<>>,
              metric |-> 0, threw |-> FALSE, outcomes |-> <<>>]

IdleAudit ==
    [stage |-> "idle", log |-> "none", attempts |-> 0, completion |-> "none",
     result |-> "none", entry |-> NoEntry, wrapper |-> NoWrapper]

\* verification_error: null. An error message is the attempt it comes from
\* and what failed in it.
NoError == [attempt |-> 0, kind |-> "none"]

\* The columns of a payment after the payment controller created it.
NewRow(p, amount, address) ==
    [amount |-> amount, expiration |-> ExpiresAt,
     status |-> "pending", last_paging_token |-> 0,
     transaction_hash |-> 0, stellar_address |-> address,
     swept |-> FALSE, sweep_tx_hash |-> 0,
     onchain_verified |-> FALSE, contract_tx_hash |-> 0, verification_error |-> NoError]

\* The table holds the payments of `present`, created pending by the payment
\* controller; the verifier contract is configured or not as `contracts` has it.
InitStore(present, tokens, contracts) ==
    /\ rows = present
    /\ firstToken \in tokens
    /\ contractId \in contracts
    /\ db = [p \in Payments |-> NewRow(p, 100, p)]
    /\ history = [p \in Payments |-> <<>>]
    /\ clock = 0
    /\ tick = [t \in Ticks |-> IdleTick]
    /\ sweep = [s \in Sweeps |-> IdleSweep]
    /\ verifyCalls = [p \in Payments |-> 0]
    /\ events = [p \in Payments |-> 0]
    /\ fresh = [p \in Payments |-> {}]
    /\ observed = [p \in Payments |-> FALSE]
    /\ resubmitted = [p \in Payments |-> FALSE]
    /\ calls = <<>>
    /\ manual = [p \in Payments |-> 0]
    /\ audit = [s \in Sweeps |-> IdleAudit]
    /\ monitor = IdleMonitor

\* The same with the verifier contract configured.
InitWith(present, tokens) == InitStore(present, tokens, {TRUE})

Init == InitWith(Payments, FirstTokens)

\* The table holds every payment, pending; a row may carry an amount that is
\* not positive, or an address written under another master seed.
InitBatch ==
    /\ rows = Payments
    /\ firstToken = 10
    /\ \E amounts \in [Payments -> AmountInputs] :
       \E foreign \in SUBSET Payments :
          db = [p \in Payments |->
                  NewRow(p, amounts[p], IF p \in foreign THEN ForeignAddress ELSE p)]
    /\ history = [p \in Payments |-> <<>>]
    /\ clock = 0
    /\ tick = [t \in Ticks |-> IdleTick]
    /\ sweep = [s \in Sweeps |-> IdleSweep]
    /\ verifyCalls = [p \in Payments |-> 0]
    /\ events = [p \in Payments |-> 0]
    /\ fresh = [p \in Payments |-> {}]
    /\ observed = [p \in Payments |-> FALSE]
    /\ resubmitted = [p \in Payments |-> FALSE]
    /\ calls = <<>>
    /\ manual = [p \in Payments |-> 0]
    /\ contractId = TRUE
    /\ audit = [s \in Sweeps |-> IdleAudit]
    /\ monitor = IdleMonitor

\* -------------------------------------------------------------- environment
\* A payer's transfer lands on the custody address of p.
Transfer(p, kind, amt) ==
    /\ p \in rows
    /\ Len(history[p]) < MaxTransfers
    /\ history' = [history EXCEPT ![p] = Append(@, [kind |-> kind, amount |-> amt])]
    /\ tick' = [t \in Ticks |-> [tick[t] EXCEPT !.clean = @ \ {p}]]
    /\ observed' = [observed EXCEPT ![p] = FALSE]
    /\ UNCHANGED <<rows, db, firstToken, clock, sweep, verifyCalls, events, fresh, resubmitted,
                   calls, manual, contractId, audit, monitor>>

AdvanceClock ==
    /\ clock < MaxClock
    /\ clock' = clock + 1
    /\ UNCHANGED <<rows, db, history, firstToken, tick, sweep, verifyCalls, events, fresh, observed,
                   resubmitted,
                   calls, manual, contractId, audit, monitor>>

\* ------------------------------------------------- runPaymentMonitorTick
\* The tick's locals after one payment of the loop is done.
NextPayment(tk) ==
    LET q == Tail(tk.queue)
    IN  [tk EXCEPT !.queue = q,
                   !.pc = IF q = <<>> THEN "idle" ELSE "load",
                   !.totalReceived = 0, !.latestPagingToken = 0, !.latestTxHash = 0]

ReportedAlways(e) == TRUE

\* if ((e as any).response?.status !== 404) console.error(...)
Reported(e) == e # "404"

CaughtAndStop(tk, e) ==
    LET p == Head(tk.queue).id
    IN  [tk EXCEPT !.queue = <<>>, !.pc = "idle", !.err = TRUE, !.clean = @ \ {p},
                   !.caught = e, !.reported = Reported(e)]

\* The catch block of the loop body, e being what was thrown: the answer
\* 404 of the ledger or any other error.
CaughtAs(tk, e) ==
    LET p == Head(tk.queue).id
    IN  [NextPayment(tk) EXCEPT !.err = TRUE, !.clean = @ \ {p},
                                !.caught = e, !.reported = Reported(e)]

Caught(tk) == CaughtAs(tk, "error")

\* What a tick that ends leaves in `observed`.
ObservedAfter(tk) ==
    [p \in Payments |-> observed[p] \/ (tk.pc = "idle" /\ p \in tk.clean)]

\* now = new Date(); updateMany: pending / partially_paid rows past their
\* expiration become expired.
TickBegin(t) ==
    /\ tick[t].pc = "idle"
    /\ LET stale == {p \in rows :
                        db[p].status \in ExpirableStatuses /\ Expiration(p) <= clock}
       IN  /\ db' = [p \in Payments |->
                        IF p \in stale THEN [db[p] EXCEPT !.status = "expired"] ELSE db[p]]
           /\ fresh' = [p \in Payments |-> IF p \in stale THEN {} ELSE fresh[p]]
    /\ tick' = [tick EXCEPT ![t] = [IdleTick EXCEPT !.pc = "find", !.now = clock,
                                                   !.clean = rows]]
    /\ UNCHANGED <<rows, history, firstToken, clock, sweep, verifyCalls, events, observed, resubmitted,
                   calls, manual, contractId, audit>>

\* A tick called by anything but the scheduler.
TickExpire(t) == TickBegin(t) /\ UNCHANGED monitor

\* monitorTimer = setInterval(...): the variable takes the new interval; the
\* interval it held is not cleared.
SetInterval(m, id) == [m EXCEPT !.timer = id, !.active = @ \cup {id}, !.made = id,
                                !.stopped = FALSE]

\* startPaymentMonitor: the immediate tick up to its first await, then
\* setInterval.
StartPaymentMonitor(t) ==
    /\ monitor.made < MaxTimers
    /\ TickBegin(t)
    /\ monitor' = SetInterval(monitor, monitor.made + 1)

\* stopPaymentMonitor: clearInterval(monitorTimer) when it is set.
StopPaymentMonitor ==
    /\ monitor' = IF monitor.timer # 0
                  THEN [monitor EXCEPT !.active = @ \ {monitor.timer}, !.timer = 0,
                                       !.stopped = TRUE]
                  ELSE [monitor EXCEPT !.stopped = TRUE]
    /\ UNCHANGED <<rows, db, history, firstToken, clock, tick, sweep, verifyCalls, events,
                   fresh, observed, resubmitted, calls, manual, contractId, audit>>

\* An interval that is set fires: its callback calls runPaymentMonitorTick.
TimerFires(id, t) ==
    /\ id \in monitor.active
    /\ TickBegin(t)
    /\ UNCHANGED monitor

\* findMany: the active rows, in the order the store returns them.
TickFind(t) ==
    /\ tick[t].pc = "find"
    /\ LET active == {p \in rows :
                         db[p].status \in MonitoredStatuses /\ Expiration(p) > tick[t].now}
       IN  \E order \in Orderings(active) :
             LET q == [i \in 1..Len(order) |->
                          [id |-> order[i], status |-> db[order[i]].status,
                           last_paging_token |-> db[order[i]].last_paging_token]]
                 tk == [tick[t] EXCEPT !.queue = q,
                                       !.pc = IF q = <<>> THEN "idle" ELSE "load"]
             IN  /\ tick' = [tick EXCEPT ![t] = tk]
                 /\ fresh' = [p \in Payments |->
                                 IF p \in active THEN fresh[p] \cup {t} ELSE fresh[p]]
                 /\ observed' = ObservedAfter(tk)
    /\ UNCHANGED <<rows, db, history, firstToken, clock, sweep, verifyCalls, events, resubmitted,
                   calls, manual, contractId, audit, monitor>>

\* loadAccount(address): the balance read; ok = FALSE is a ledger error, the
\* 404 of an address that does not exist included.
TickLoadAccount(t, ok) ==
    /\ tick[t].pc = "load"
    /\ LET p == Head(tick[t].queue).id
           tk == IF ok
                 THEN [tick[t] EXCEPT !.pc = "query", !.totalReceived = Balance(p),
                                      !.settled = FALSE, !.verified = FALSE,
                                      !.emitted = FALSE, !.err = FALSE,
                                      !.caught = "none", !.reported = FALSE]
                 ELSE Caught([tick[t] EXCEPT !.settled = FALSE, !.verified = FALSE,
                                             !.emitted = FALSE])
       IN  /\ tick' = [tick EXCEPT ![t] = tk]
           /\ observed' = ObservedAfter(tk)
    /\ UNCHANGED <<rows, db, history, firstToken, clock, sweep, verifyCalls, events, fresh, resubmitted,
                   calls, manual, contractId, audit, monitor>>

\* loadAccount(address) of an address the ledger does not know: the answer
\* is 404 and the catch block takes it.
TickLoadNotFound(t) ==
    /\ tick[t].pc = "load"
    /\ history[Head(tick[t].queue).id] = <<>>
    /\ LET tk == CaughtAs([tick[t] EXCEPT !.settled = FALSE, !.verified = FALSE,
                                          !.emitted = FALSE], "404")
       IN  /\ tick' = [tick EXCEPT ![t] = tk]
           /\ observed' = ObservedAfter(tk)
    /\ UNCHANGED <<rows, db, history, firstToken, clock, sweep, verifyCalls, events, fresh,
                   resubmitted, calls, manual, contractId, audit, monitor>>

\* paymentsQuery.call() and the loop over its records.
TickQuery(t, ok) ==
    /\ tick[t].pc = "query"
    /\ LET cur == Head(tick[t].queue)
           page == HistoryPage(cur.id, cur.last_paging_token)
           tk == IF ok
                 THEN [tick[t] EXCEPT
                          !.pc = "update",
                          !.latestPagingToken = LatestToken(page, cur.last_paging_token),
                          !.latestTxHash = FirstUsdcHash(cur.id, page)]
                 ELSE Caught(tick[t])
       IN  /\ tick' = [tick EXCEPT ![t] = tk]
           /\ observed' = ObservedAfter(tk)
    /\ UNCHANGED <<rows, db, history, firstToken, clock, sweep, verifyCalls, events, fresh, resubmitted,
                   calls, manual, contractId, audit, monitor>>

\* The locals of a verify_payment call when it reaches its first await: with
\* no contract configured it has returned false by then.
NewCall(p, txHash, amount) ==
    [payment |-> p, txHash |-> txHash, amount |-> amount,
     pc |-> IF contractId THEN "invoke" ELSE "done",
     attempt |-> 0, invoked |-> 0, finalized |-> FALSE, status |-> "none", retries |-> 0,
     error |-> NoError, result |-> IF contractId THEN "none" ELSE "false"]

CursorAdvancedNever(tok, stored) == FALSE

\* latestPagingToken && latestPagingToken !== payment.last_paging_token
CursorAdvanced(tok, stored) == tok # 0 /\ tok # stored

\* The update of the row, and the call of verify_payment that follows it.
TickUpdate(t, ok) ==
    /\ tick[t].pc = "update"
    /\ LET cur == Head(tick[t].queue)
           p == cur.id
           newStatus == Classify(tick[t].totalReceived, Amount(p))
           tok == tick[t].latestPagingToken
           hash == tick[t].latestTxHash
           both == newStatus # "none" /\ (newStatus # cur.status \/ hash # 0)
           tokenOnly == ~both /\ CursorAdvanced(tok, cur.last_paging_token)
           verify == newStatus \in SettledStatuses /\ hash # 0
           tk == IF both /\ ok
                 THEN [tick[t] EXCEPT
                          !.settled = newStatus \in SettledStatuses
                                         /\ newStatus # db[p].status,
                          !.verified = verify,
                          !.pc = IF verify THEN "emit" ELSE "update"]
                 ELSE tick[t]
           done == IF (both \/ tokenOnly) /\ ~ok THEN Caught(tk)
                   ELSE IF tk.pc = "emit" THEN tk
                   ELSE NextPayment(tk)
       IN  /\ db' = IF both /\ ok
                    THEN [db EXCEPT ![p] =
                            [@ EXCEPT !.status = newStatus,
                                      !.last_paging_token = tok,
                                      !.transaction_hash = IF hash # 0 THEN hash ELSE @]]
                    ELSE IF tokenOnly /\ ok
                    THEN [db EXCEPT ![p] = [@ EXCEPT !.last_paging_token = tok]]
                    ELSE db
           /\ fresh' = IF (both \/ tokenOnly) /\ ok
                       THEN [fresh EXCEPT ![p] = {}] ELSE fresh
           /\ verifyCalls' = IF both /\ ok /\ verify
                             THEN [verifyCalls EXCEPT ![p] = Min(@ + 1, MaxCount)]
                             ELSE verifyCalls
           /\ calls' = IF both /\ ok /\ verify /\ Len(calls) < MaxCount
                       THEN Append(calls, NewCall(p, hash, tick[t].totalReceived))
                       ELSE calls
           /\ tick' = [tick EXCEPT ![t] = done]
           /\ observed' = ObservedAfter(done)
    /\ UNCHANGED <<rows, history, firstToken, clock, sweep, events, resubmitted,
                   manual, contractId, audit, monitor>>

\* findUnique of the updated row, then eventBus.emit(PAYMENT_CONFIRMED).
TickEmit(t, ok) ==
    /\ tick[t].pc = "emit"
    /\ LET p == Head(tick[t].queue).id
           tk == IF ok THEN NextPayment([tick[t] EXCEPT !.emitted = TRUE])
                 ELSE Caught(tick[t])
       IN  /\ events' = IF ok THEN [events EXCEPT ![p] = Min(@ + 1, MaxCount)]
                        ELSE events
           /\ tick' = [tick EXCEPT ![t] = tk]
           /\ observed' = ObservedAfter(tk)
    /\ UNCHANGED <<rows, db, history, firstToken, clock, sweep, verifyCalls, fresh, resubmitted,
                   calls, manual, contractId, audit, monitor>>

\* ------------------------------------------------- sweepPaidPayments
DerivedAddressAsStored(p) == db[p].stellar_address

\* hdWalletService.regenerateKeypair(merchantId, paymentId): the public key
\* derived for the payment.
DerivedAddress(p) == p

ValidAmountAny(expected) == TRUE

\* Number.isFinite(expected) && expected > 0
ValidAmount(expected) == expected > 0

\* Transfers of sweeps the ledger accepted from the custody address of p.
AcceptedSweeps(p) == Cardinality({i \in 1..Len(history[p]) : history[p][i].kind = "out"})

\* The run's locals after one payment of the loop is done.
NextSwept(sw) ==
    LET q == Tail(sw.queue)
    IN  [sw EXCEPT !.queue = q, !.pc = IF q = <<>> THEN "idle" ELSE "loop", !.hash = 0]

SkipAndStop(sw, reason) ==
    [sw EXCEPT !.skipped = Append(@, [paymentId |-> Head(sw.queue).id, reason |-> reason]),
               !.queue = <<>>, !.pc = "idle", !.hash = 0]

\* skipped.push({ paymentId, reason }); continue (or the end of the catch block).
Skip(sw, reason) ==
    NextSwept([sw EXCEPT !.skipped = Append(@, [paymentId |-> Head(sw.queue).id,
                                                reason |-> reason])])

\* POST /run -> sweepPaidPayments(options): the limit in force and dryRun.
SweepStart(s, limit, dryRun) ==
    /\ sweep[s].pc = "idle"
    /\ sweep' = [sweep EXCEPT ![s] =
                    [IdleSweep EXCEPT !.pc = "find", !.dryRun = dryRun,
                                      !.limit = IF limit > 0 THEN limit
                                                ELSE SWEEP_BATCH_LIMIT]]
    /\ UNCHANGED <<rows, db, history, firstToken, clock, tick, verifyCalls, events, fresh, observed,
                   resubmitted,
                   calls, manual, contractId, audit, monitor>>

EligibleWhateverStatus == {p \in rows : ~db[p].swept}

EligibleWhateverSwept ==
    {p \in rows : db[p].status \in {"confirmed", "overpaid", "paid"}}

\* Rows that getUnsweptPaidPayments selects.
Eligible ==
    {p \in rows : /\ ~db[p].swept
                  /\ db[p].status \in {"confirmed", "overpaid", "paid"}}

\* getUnsweptPaidPayments(limit): confirmed_at is written by no code of the
\* services, so the store is free in the order of the rows.
SweepFind(s) ==
    /\ sweep[s].pc = "find"
    /\ \E order \in Orderings(Eligible) :
         LET taken == Take(order, sweep[s].limit)
             q == [i \in 1..Len(taken) |->
                      [id |-> taken[i], amount |-> db[taken[i]].amount,
                       stellar_address |-> db[taken[i]].stellar_address]]
         IN  sweep' = [sweep EXCEPT ![s] =
                          [@ EXCEPT !.queue = q,
                                    !.selected = {taken[i] : i \in 1..Len(taken)},
                                    !.pc = IF q = <<>> THEN "idle" ELSE "loop"]]
    /\ UNCHANGED <<rows, db, history, firstToken, clock, tick, verifyCalls, events, fresh, observed,
                   resubmitted,
                   calls, manual, contractId, audit, monitor>>

\* The loop body up to the submission: amount check, key derivation, address
\* check, dry run.
SweepDerive(s) ==
    /\ sweep[s].pc = "loop"
    /\ LET p == Head(sweep[s].queue)
           sw == sweep[s]
       IN  sweep' = [sweep EXCEPT ![s] =
              IF ~ValidAmount(p.amount) THEN Skip(sw, "Invalid amount")
              ELSE IF DerivedAddress(p.id) # p.stellar_address
                   THEN Skip(sw, "Derived address mismatch")
              ELSE IF sw.dryRun
                   THEN NextSwept([sw EXCEPT !.addressesSwept = @ + 1,
                                             !.total = @ + p.amount])
              ELSE [sw EXCEPT !.pc = "submit"]]
    /\ UNCHANGED <<rows, db, history, firstToken, clock, tick, verifyCalls, events, fresh, observed,
                   resubmitted,
                   calls, manual, contractId, audit, monitor>>

SweepTxDouble(p) == [kind |-> "out", amount |-> 2 * p.amount]

\* Operation.payment({ destination: vault, asset: USDC, amount }): the one
\* operation of the transaction, as the record it leaves on the source address.
SweepTx(p) == [kind |-> "out", amount |-> p.amount]

\* submitUsdcSweepTx: loadAccount of the source, then submitTransaction. The
\* ledger accepts the payment only when the address holds the amount.
SweepSubmit(s, outcome) ==
    /\ sweep[s].pc = "submit"
    /\ LET p == Head(sweep[s].queue)
           sw == sweep[s]
           sent == [sw EXCEPT !.submitted = @ \cup {p.id}]
       IN  /\ outcome = "accepted" => Balance(p.id) >= p.amount
           /\ history' = IF outcome = "accepted"
                         THEN [history EXCEPT ![p.id] =
                                 Append(@, SweepTx(p))]
                         ELSE history
           /\ sweep' = [sweep EXCEPT ![s] =
                IF outcome = "accepted"
                THEN [sent EXCEPT !.pc = "update", !.hash = Len(history[p.id]) + 1]
                ELSE IF outcome = "rejected" THEN Skip(sent, "submit failed")
                ELSE Skip(sw, "load failed")]
           /\ resubmitted' = IF outcome # "load_failed" /\ AcceptedSweeps(p.id) > 0
                             THEN [resubmitted EXCEPT ![p.id] = TRUE]
                             ELSE resubmitted
           /\ tick' = IF outcome = "accepted"
                      THEN [t \in Ticks |-> [tick[t] EXCEPT !.clean = @ \ {p.id}]]
                      ELSE tick
           /\ observed' = IF outcome = "accepted"
                          THEN [observed EXCEPT ![p.id] = FALSE] ELSE observed
    /\ UNCHANGED <<rows, db, firstToken, clock, verifyCalls, events, fresh,
                   calls, manual, contractId, audit, monitor>>

SweptRowNoHash(row, hash) == [row EXCEPT !.swept = TRUE]

\* data: { swept: true, swept_at: new Date(), sweep_tx_hash: hash }
SweptRow(row, hash) == [row EXCEPT !.swept = TRUE, !.sweep_tx_hash = hash]

\* prisma.payment.update: swept, swept_at, sweep_tx_hash; then the counters.
CountedWithoutHash(sw, p) ==
    [sw EXCEPT !.addressesSwept = @ + 1, !.total = @ + p.amount]

\* txHashes.push(hash); addressesSwept += 1; total += expected
Counted(sw, p) ==
    [sw EXCEPT !.txHashes = Append(@, <<p.id, sw.hash>>),
               !.addressesSwept = @ + 1,
               !.total = @ + p.amount]

SweepUpdate(s, ok) ==
    /\ sweep[s].pc = "update"
    /\ LET p == Head(sweep[s].queue)
           sw == sweep[s]
       IN  /\ db' = IF ok
                    THEN [db EXCEPT ![p.id] = SweptRow(@, sw.hash)]
                    ELSE db
           /\ sweep' = [sweep EXCEPT ![s] =
                IF ok
                THEN NextSwept(Counted(sw, p))
                ELSE Skip(sw, "update failed")]
    /\ UNCHANGED <<rows, history, firstToken, clock, tick, verifyCalls, events, fresh, observed,
                   resubmitted,
                   calls, manual, contractId, audit, monitor>>

\* ------------------------------------------------- verify_payment
\* The catch block of the retry loop: attempt++, then the store write of the
\* error when the attempts are used up, else the backoff and the next attempt.
Failed(c, kind) ==
    LET a == c.attempt + 1
    IN  [c EXCEPT !.attempt = a, !.error = [attempt |-> a, kind |-> kind],
                  !.status = "none", !.retries = 0,
                  !.pc = IF a >= MAX_RETRIES THEN "record" ELSE "invoke"]

\* After the polling loop: a transaction that failed on-chain throws, any
\* other status returns the response to verify_payment.
PollingDone(c) ==
    IF c.status = "FAILED" THEN Failed(c, "failed on-chain")
    ELSE [c EXCEPT !.pc = "persist", !.finalized = @ \/ c.status = "SUCCESS"]

\* while (txResponse.status === 'NOT_FOUND' && retries < 15)
AfterAnswer(c) ==
    IF c.status = "NOT_FOUND" /\ c.retries < MAX_POLLS THEN [c EXCEPT !.pc = "poll"]
    ELSE PollingDone(c)

\* The answers of the Soroban RPC server to getTransaction; "error" is a
\* call that throws, status ERROR of sendTransaction included.
RpcAnswers == {"error", "NOT_FOUND", "SUCCESS", "FAILED"}

\* invokeVerifyContract up to the first getTransaction.
VerifyInvoke(i, answer) ==
    /\ i \in 1..Len(calls)
    /\ calls[i].pc = "invoke"
    /\ LET c == [calls[i] EXCEPT !.invoked = @ + 1]
       IN  calls' = [calls EXCEPT ![i] =
                        IF answer = "error" THEN Failed(c, "send failed")
                        ELSE AfterAnswer([c EXCEPT !.status = answer, !.retries = 0])]
    /\ UNCHANGED <<rows, db, history, firstToken, clock, tick, sweep, verifyCalls, events,
                   fresh, observed, resubmitted, manual, contractId, audit, monitor>>

\* One turn of the polling loop: the wait, getTransaction, retries++.
VerifyPoll(i, answer) ==
    /\ i \in 1..Len(calls)
    /\ calls[i].pc = "poll"
    /\ LET c == calls[i]
       IN  calls' = [calls EXCEPT ![i] =
                        IF answer = "error" THEN Failed(c, "poll failed")
                        ELSE AfterAnswer([c EXCEPT !.status = answer, !.retries = @ + 1])]
    /\ UNCHANGED <<rows, db, history, firstToken, clock, tick, sweep, verifyCalls, events,
                   fresh, observed, resubmitted, manual, contractId, audit, monitor>>

VerifiedRowFailsPayment(row, txid) ==
    [row EXCEPT !.onchain_verified = TRUE, !.contract_tx_hash = txid,
                !.verification_error = NoError, !.status = "failed"]

\* data: { onchain_verified: true, contract_tx_hash, verification_error: null }
VerifiedRow(row, txid) ==
    [row EXCEPT !.onchain_verified = TRUE, !.contract_tx_hash = txid,
                !.verification_error = NoError]

\* The store write after an attempt that returned; a write that throws is
\* caught as a failure of the attempt.
VerifyPersist(i, ok) ==
    /\ i \in 1..Len(calls)
    /\ calls[i].pc = "persist"
    /\ LET c == calls[i]
       IN  /\ db' = IF ok THEN [db EXCEPT ![c.payment] = VerifiedRow(@, c.invoked)]
                    ELSE db
           /\ calls' = [calls EXCEPT ![i] =
                           IF ok THEN [c EXCEPT !.pc = "done", !.result = "true"]
                           ELSE Failed(c, "store write failed")]
    /\ UNCHANGED <<rows, history, firstToken, clock, tick, sweep, verifyCalls, events,
                   fresh, observed, resubmitted, manual, contractId, audit, monitor>>

\* attempt >= MAX_RETRIES: the store write of verification_error, then
\* logToManualInterventionQueue and return false. The write is in the catch
\* block: when it throws, verify_payment rejects.
VerifyRecord(i, ok) ==
    /\ i \in 1..Len(calls)
    /\ calls[i].pc = "record"
    /\ LET c == calls[i]
       IN  /\ db' = IF ok
                    THEN [db EXCEPT ![c.payment] = [@ EXCEPT !.verification_error = c.error]]
                    ELSE db
           /\ manual' = IF ok THEN [manual EXCEPT ![c.payment] = Min(@ + 1, MaxCount)]
                        ELSE manual
           /\ calls' = [calls EXCEPT ![i] =
                           [c EXCEPT !.pc = "done",
                                     !.result = IF ok THEN "false" ELSE "threw"]]
    /\ UNCHANGED <<rows, history, firstToken, clock, tick, sweep, verifyCalls, events,
                   fresh, observed, resubmitted, contractId, audit, monitor>>

\* ------------------------------------------------- audit trail of a sweep run
\* safeAuditLog: the operation is tried up to 3 times; `failures` of its
\* attempts throw. The result is the record written, or null.
\* What each try of the wrapped operation does.
AuditOutcomes == [1..MAX_AUDIT_ATTEMPTS -> {"ok", "throws"}]

KeepTryingOnce(attempts) == attempts < 1

\* while (attempts < maxAttempts)
KeepTrying(attempts) == attempts < MAX_AUDIT_ATTEMPTS

\* safeAuditLog: the loop from `attempts` failed tries on; w holds what the
\* wrapper has done so far.
RECURSIVE SafeAuditLoop(_, _, _)
SafeAuditLoop(outcomes, attempts, w) ==
    IF KeepTrying(attempts)
    THEN IF outcomes[attempts + 1] = "ok"
         THEN [w EXCEPT !.result = "written", !.tries = @ + 1]
         ELSE LET a == attempts + 1
              IN  SafeAuditLoop(outcomes, a,
                     [w EXCEPT !.tries = @ + 1, !.logged = @ + 1,
                               !.waits = IF a < MAX_AUDIT_ATTEMPTS
                                         THEN Append(@, 2 ^ a * 100) ELSE @])
    ELSE [w EXCEPT !.result = "null", !.metric = @ + 1]

\* safeAuditLog(operation, context), the tries of the operation ending as
\* `outcomes` says.
SafeAuditLog(outcomes) ==
    SafeAuditLoop(outcomes, 0, [NoWrapper EXCEPT !.outcomes = outcomes])

PcAfterTriggerStopsOnNull(log) == IF log = "null" THEN "idle" ELSE "find"

\* sweepPaidPayments goes on to getUnsweptPaidPayments whatever auditLog is.
PcAfterTrigger(log) == "find"

\* sweepPaidPayments up to getUnsweptPaidPayments: the options, then
\* logSweepTrigger.
AuditedSweepStart(s, limit, dryRun, outcomes) ==
    /\ sweep[s].pc = "idle"
    /\ audit[s].stage # "running"
    /\ LET w == SafeAuditLog(outcomes)
           log == w.result
       IN  /\ audit' = [audit EXCEPT ![s] =
                           [IdleAudit EXCEPT
                               !.stage = "running", !.log = log, !.attempts = w.tries,
                               !.wrapper = w,
                               !.entry = IF log = "written"
                                         THEN [NoEntry EXCEPT !.state = "triggered"]
                                         ELSE NoEntry]]
           /\ sweep' = [sweep EXCEPT ![s] =
                           [IdleSweep EXCEPT !.pc = PcAfterTrigger(log), !.dryRun = dryRun,
                                             !.limit = IF limit > 0 THEN limit
                                                       ELSE SWEEP_BATCH_LIMIT]]
    /\ UNCHANGED <<rows, db, history, firstToken, clock, tick, verifyCalls, events, fresh,
                   observed, resubmitted, calls, manual, contractId, monitor>>

FinalStatusFailsOnAnySkip(addressesSwept, skipped) ==
    IF Len(skipped) > 0 THEN "failed" ELSE "completed"

\* skipped.length > 0 && addressesSwept === 0 ? "failed" : "completed"
FinalStatus(addressesSwept, skipped) ==
    IF Len(skipped) > 0 /\ addressesSwept = 0 THEN "failed" ELSE "completed"

\* The entry after updateSweepCompletion wrote it: the status, the
\* statistics and, for a failed run, the first 5 skipped payments.
CompletedEntry(run) ==
    LET status == FinalStatus(run.addressesSwept, run.skipped)
    IN  [state |-> status, addresses_swept |-> run.addressesSwept,
         total_amount |-> run.total,
         failure_reason |-> IF status = "failed" THEN Take(run.skipped, 5) ELSE <<>>]

\* After the loop: updateSweepCompletion when auditLog is not null, then the
\* return of the result.
SweepReturn(s, outcomes) ==
    /\ sweep[s].pc = "idle"
    /\ audit[s].stage = "running"
    /\ LET w == IF audit[s].log = "null" THEN audit[s].wrapper ELSE SafeAuditLog(outcomes)
           completion == IF audit[s].log = "null" THEN "skipped"
                         ELSE IF w.result = "null" THEN "failed" ELSE "written"
       IN  audit' = [audit EXCEPT ![s] =
                       [@ EXCEPT !.stage = "returned", !.completion = completion,
                                 !.wrapper = w,
                                 !.entry = IF completion = "written"
                                           THEN CompletedEntry(sweep[s]) ELSE @]]
    /\ UNCHANGED <<rows, db, history, firstToken, clock, tick, sweep, verifyCalls, events,
                   fresh, observed, resubmitted, calls, manual, contractId, monitor>>

\* ------------------------------------------------------------ specification
LedgerIn(amounts) == \E p \in Payments, a \in amounts : Transfer(p, "in", a)

LedgerOther == \E p \in Payments : Transfer(p, "other", 100)

\* No call of runPaymentMonitorTick is in flight.
NoTickRunning == \A t \in Ticks : tick[t].pc = "idle"

\* No call of sweepPaidPayments is in flight.
NoSweepRunning == \A s \in Sweeps : sweep[s].pc = "idle"

TickStep(t, oks) ==
    \/ TickFind(t)
    \/ \E ok \in oks : TickLoadAccount(t, ok)
    \/ \E ok \in oks : TickQuery(t, ok)
    \/ \E ok \in oks : TickUpdate(t, ok)
    \/ \E ok \in oks : TickEmit(t, ok)

SweepStep(s) ==
    \/ SweepFind(s)
    \/ SweepDerive(s)
    \/ \E outcome \in {"accepted", "rejected", "load_failed"} : SweepSubmit(s, outcome)
    \/ \E ok \in BOOLEAN : SweepUpdate(s, ok)

VerifyStep(i) ==
    \/ \E answer \in RpcAnswers : VerifyInvoke(i, answer)
    \/ \E answer \in RpcAnswers : VerifyPoll(i, answer)
    \/ \E ok \in BOOLEAN : VerifyPersist(i, ok)
    \/ \E ok \in BOOLEAN : VerifyRecord(i, ok)

\* The whole system: setInterval, the immediate tick and the route start
\* ticks and sweep runs whatever is in flight.
Next ==
    \/ LedgerIn(TransferAmounts)
    \/ LedgerOther
    \/ AdvanceClock
    \/ \E t \in Ticks : TickExpire(t)
    \/ \E t \in Ticks : TickStep(t, BOOLEAN)
    \/ \E s \in Sweeps, l \in LimitInputs, d \in BOOLEAN : SweepStart(s, l, d)
    \/ \E s \in Sweeps : SweepStep(s)
    \/ \E i \in 1..MaxCount : VerifyStep(i)
    \/ \E t \in Ticks : TickLoadNotFound(t)
    \/ \E t \in Ticks : StartPaymentMonitor(t)
    \/ StopPaymentMonitor
    \/ \E id \in 1..MaxTimers, t \in Ticks : TimerFires(id, t)
    \/ \E s \in Sweeps, l \in LimitInputs, d \in BOOLEAN, o \in AuditOutcomes :
          AuditedSweepStart(s, l, d, o)
    \/ \E s \in Sweeps, o \in AuditOutcomes : SweepReturn(s, o)

Spec == Init /\ [][Next]_vars

\* The observer alone, its ticks following one another: a tick starts when
\* none is in flight.
NextSerial ==
    \/ LedgerIn(TransferAmounts)
    \/ LedgerOther
    \/ AdvanceClock
    \/ NoTickRunning /\ TickExpire("t1")
    \/ TickStep("t1", BOOLEAN)

SpecSerial == InitWith({"p1"}, FirstTokens) /\ [][NextSerial]_vars

\* The observer alone, two ticks in flight at once.
NextOverlap ==
    \/ LedgerIn({40, 60})
    \/ \E t \in Ticks : TickExpire(t)
    \/ \E t \in Ticks : TickStep(t, {TRUE})

SpecOverlap == InitWith({"p1"}, {10}) /\ [][NextOverlap]_vars

\* Sweep runs that follow one another, after ticks that follow one another.
NextSweepSerial ==
    \/ LedgerIn({100})
    \/ NoTickRunning /\ TickExpire("t1")
    \/ TickStep("t1", BOOLEAN)
    \/ \E l \in LimitInputs, d \in BOOLEAN : NoSweepRunning /\ SweepStart("s1", l, d)
    \/ SweepStep("s1")

SpecSweepSerial == InitWith({"p1"}, {10}) /\ [][NextSweepSerial]_vars

\* Sweep runs in flight at once.
NextSweep ==
    \/ LedgerIn({100})
    \/ NoTickRunning /\ TickExpire("t1")
    \/ TickStep("t1", {TRUE})
    \/ \E s \in Sweeps, l \in LimitInputs, d \in BOOLEAN : SweepStart(s, l, d)
    \/ \E s \in Sweeps : SweepStep(s)

SpecSweep == InitWith({"p1"}, {10}) /\ [][NextSweep]_vars

\* The observer with two ticks in flight at once, while the clock runs and
\* the payer pays in up to two parts.
NextExpiry ==
    \/ \E a \in {40, 60} : Len(history["p1"]) < 2 /\ Transfer("p1", "in", a)
    \/ AdvanceClock
    \/ \E t \in Ticks : TickExpire(t)
    \/ \E t \in Ticks : TickStep(t, {TRUE})

SpecExpiry == InitWith({"p1"}, {10}) /\ [][NextExpiry]_vars

\* One transfer of 100 to an address that has received none.
LedgerOnce == \E p \in Payments : history[p] = <<>> /\ Transfer(p, "in", 100)

\* Two payments, a row of which may be invalid; ticks that follow one another
\* and sweep runs that follow one another.
NextBatch ==
    \/ LedgerOnce
    \/ NoTickRunning /\ TickExpire("t1")
    \/ TickStep("t1", {TRUE})
    \/ \E l \in LimitInputs, d \in BOOLEAN : NoSweepRunning /\ SweepStart("s1", l, d)
    \/ SweepStep("s1")

SpecBatch == InitBatch /\ [][NextBatch]_vars

\* One payment, the clock, ticks and sweep runs that follow one another; the
\* operator starts a run once the address holds the amount.
NextSweepExpiry ==
    \/ LedgerIn({100})
    \/ AdvanceClock
    \/ NoTickRunning /\ TickExpire("t1")
    \/ TickStep("t1", {TRUE})
    \/ \E l \in LimitInputs :
          /\ NoSweepRunning
          /\ Balance("p1") >= Amount("p1")
          /\ SweepStart("s1", l, FALSE)
    \/ SweepStep("s1")

SpecSweepExpiry == InitWith({"p1"}, {10}) /\ [][NextSweepExpiry]_vars

\* Two payments; the payer of p2 pays once p1 is settled, so the observer
\* confirms p1 before p2. Sweep runs of limit 1 follow one another.
NextSweepOrder ==
    \/ history["p1"] = <<>> /\ Transfer("p1", "in", 100)
    \/ /\ db["p1"].status \in SettledStatuses
       /\ history["p2"] = <<>>
       /\ Transfer("p2", "in", 100)
    \/ NoTickRunning /\ TickExpire("t1")
    \/ TickStep("t1", {TRUE})
    \/ NoSweepRunning /\ SweepStart("s1", 1, FALSE)
    \/ SweepStep("s1")

SpecSweepOrder == InitWith(Payments, {10}) /\ [][NextSweepOrder]_vars

\* One payment paid once in full, ticks that follow one another, the
\* verify_payment calls they dispatch, and sweep runs that follow one another.
NextVerify ==
    \/ LedgerOnce
    \/ NoTickRunning /\ TickExpire("t1")
    \/ TickStep("t1", {TRUE})
    \/ \E i \in 1..MaxCount : VerifyStep(i)
    \/ NoSweepRunning /\ SweepStart("s1", 0, FALSE)
    \/ SweepStep("s1")

SpecVerify == InitStore({"p1"}, {10}, BOOLEAN) /\ [][NextVerify]_vars

\* Two payments, each paid once in full; ticks that follow one another, in
\* which every ledger read, store write and emission may fail; the
\* verify_payment calls they dispatch fail in every attempt.
NextTickBatch ==
    \/ LedgerOnce
    \/ NoTickRunning /\ TickExpire("t1")
    \/ TickStep("t1", BOOLEAN)
    \/ TickLoadNotFound("t1")
    \/ \E i \in 1..MaxCount : VerifyInvoke(i, "error")
    \/ \E i \in 1..MaxCount, ok \in BOOLEAN : VerifyRecord(i, ok)

SpecTickBatch == InitWith(Payments, {10}) /\ [][NextTickBatch]_vars

\* One payment paid once in full, ticks that follow one another, and sweep
\* runs with their audit trail, the audit store failing or not.
NextAudit ==
    \/ LedgerOnce
    \/ NoTickRunning /\ TickExpire("t1")
    \/ TickStep("t1", {TRUE})
    \/ \E l \in LimitInputs, d \in BOOLEAN, o \in AuditOutcomes :
          AuditedSweepStart("s1", l, d, o)
    \/ SweepStep("s1")
    \/ \E o \in AuditOutcomes : SweepReturn("s1", o)

SpecAudit == InitWith({"p1"}, {10}) /\ [][NextAudit]_vars

\* Two payments paid in full, ticks that follow one another, and sweep runs
\* of limit 1 that follow one another for ever; the ledger accepts every
\* transfer submitted and the store every write.
SweepStepAccepted(s) ==
    \/ SweepFind(s)
    \/ SweepDerive(s)
    \/ SweepSubmit(s, "accepted")
    \/ SweepUpdate(s, TRUE)

RepeatedSweepStart == NoSweepRunning /\ SweepStart("s1", 1, FALSE)

NextRepeated ==
    \/ LedgerOnce
    \/ NoTickRunning /\ TickExpire("t1")
    \/ TickStep("t1", {TRUE})
    \/ RepeatedSweepStart
    \/ SweepStepAccepted("s1")

\* The cron job starts run after run, and every step of a run and of a tick
\* that can be taken is taken.
SpecRepeated ==
    /\ InitBatch
    /\ [][NextRepeated]_vars
    /\ WF_vars(LedgerOnce)
    /\ WF_vars(NoTickRunning /\ TickExpire("t1"))
    /\ WF_vars(TickStep("t1", {TRUE}))
    /\ WF_vars(RepeatedSweepStart)
    /\ WF_vars(SweepStepAccepted("s1"))

\* One payment paid once in full; the monitor started and stopped in any
\* order, its intervals firing while they are set, and the ticks they call.
NextMonitor ==
    \/ LedgerOnce
    \/ \E t \in Ticks : StartPaymentMonitor(t)
    \/ StopPaymentMonitor
    \/ \E id \in 1..MaxTimers, t \in Ticks : TimerFires(id, t)
    \/ \E t \in Ticks : TickStep(t, {TRUE})

SpecMonitor == InitWith({"p1"}, {10}) /\ [][NextMonitor]_vars

\* Two payments, each paid in full while the clock is before its expiration;
\* the clock runs and ticks follow one another at any time.
NextFundedInTime ==
    \/ clock < ExpiresAt /\ LedgerOnce
    \/ AdvanceClock
    \/ NoTickRunning /\ TickExpire("t1")
    \/ TickStep("t1", {TRUE})

SpecFundedInTime == InitWith(Payments, {10}) /\ [][NextFundedInTime]_vars

\* The audit store works in every try or in none.
SteadyOutcomes == {[i \in 1..MAX_AUDIT_ATTEMPTS |-> r] : r \in {"ok", "throws"}}

\* Two payments paid in full and confirmed, then sweep runs with their audit
\* trail that follow one another.
NextAuditBatch ==
    \/ LedgerOnce
    \/ NoTickRunning /\ TickExpire("t1")
    \/ TickStep("t1", {TRUE})
    \/ /\ \A p \in Payments : db[p].status \in SettledStatuses
       /\ \E o \in SteadyOutcomes : AuditedSweepStart("s1", 0, FALSE, o)
    \/ SweepStep("s1")
    \/ \E o \in SteadyOutcomes : SweepReturn("s1", o)

SpecAuditBatch == InitWith(Payments, {10}) /\ [][NextAuditBatch]_vars
\* ------------------------------------------------------------------ claims
\* The step is the update step of tick t.
IsUpdateStep(t) == tick[t].pc = "update" /\ tick'[t].pc # "update"

\* The balance of p counting the records up to the paging token tok.
BalanceUpTo(p, tok) ==
    BalanceOf(SubSeq(history[p], 1,
                     Cardinality({i \in 1..Len(history[p]) : PagingToken(i) <= tok})))

\* C1: the ledger accepts at most one sweep transfer per payment, and once it
\* accepted one no later run submits another, whatever submission or store
\* write fails.
C1_AtMostOneSweepTransfer ==
    \A p \in Payments : AcceptedSweeps(p) <= 1 /\ ~resubmitted[p]

\* C2: with sweep runs that follow one another, a payment whose swept field
\* is true is in the selection of no run and no transfer is submitted for it.
C2_SweptIsNeverSelected ==
    \A s \in Sweeps : \A i \in 1..Len(sweep[s].queue) : ~db[sweep[s].queue[i].id].swept

\* C2 witness: a payment is swept and the run after it selected nothing.
C2_Witness ==
    \E p \in Payments :
        /\ db[p].swept
        /\ sweep["s1"].pc = "idle" /\ sweep["s1"].limit # 0
        /\ sweep["s1"].selected = {} /\ ~sweep["s1"].dryRun

\* C3: two sweep runs in flight at once never both submit a transfer for the
\* same payment.
C3_NoDoubleSubmit ==
    \A s1, s2 \in Sweeps :
        (s1 # s2 /\ sweep[s1].pc # "idle" /\ sweep[s2].pc # "idle")
            => sweep[s1].submitted \cap sweep[s2].submitted = {}

\* C4: a tick writes the status or the cursor of a payment only when its copy
\* of the row is the row as last written: no tick overwrites what another
\* tick wrote after this tick read the payment.
C4_NoStaleWrite ==
    [][\A t \in Ticks :
          (IsUpdateStep(t) /\ db' # db) => t \in fresh[Head(tick[t].queue).id]]_vars

C6_StatusEdges ==
    [][\A p \in Payments :
          db'[p].status # db[p].status =>
              /\ db[p].status \in {"pending", "partially_paid"}
              /\ db'[p].status \in {"partially_paid", "confirmed", "overpaid", "expired"}]_vars

\* C7: last_cursor never moves to a token the ledger orders before the one
\* stored (null before every token).
C7_CursorMonotone ==
    [][\A p \in Payments : db'[p].last_paging_token >= db[p].last_paging_token]_vars

\* C8: a tick that changed a payment to confirmed or overpaid, and met no
\* error on it, has called verify_payment and emitted the event for it when
\* it goes on to the next payment.
C8_SettledIsDispatched ==
    \A t \in Ticks :
        (tick[t].pc \in {"load", "idle"} /\ tick[t].settled /\ ~tick[t].err)
            => (tick[t].verified /\ tick[t].emitted)

\* C9: whenever a tick stores a cursor, the status stored with it is the one
\* given by the balance that counts every transfer up to that cursor.
C9_CursorReflectsStatus ==
    [][\A p \in Payments :
          db'[p].last_paging_token # db[p].last_paging_token =>
              LET st == Classify(BalanceUpTo(p, db'[p].last_paging_token), db[p].amount)
              IN  st = "none" \/ db'[p].status = st]_vars

\* The ticks of the scenario of C10 up to confirmed: a payment expecting 100.
ScenarioStep(t) ==
    LET p == Head(tick[t].queue).id
        b == tick[t].totalReceived
    IN  /\ b = 0 => db'[p].status = db[p].status
        /\ b = 40 => db'[p].status = "partially_paid"
        /\ b = 100 => db'[p].status = "confirmed"

C11_TickIdempotent ==
    [][\A p \in Payments :
          (observed[p] /\ Expiration(p) > clock) =>
              /\ db'[p].status = db[p].status
              /\ db'[p].transaction_hash = db[p].transaction_hash
              /\ db'[p].last_paging_token = db[p].last_paging_token
              /\ verifyCalls'[p] = verifyCalls[p]]_vars

\* The step starts tick t: the updateMany of the expired rows.
IsExpireStep(t) == tick[t].pc = "idle" /\ tick'[t].pc = "find"

\* C12: the first step of a tick makes expired every pending or
\* partially_paid payment whose expiration is at or before the time of the
\* tick and changes no other payment; no ledger call precedes it, and the
\* payments the tick then reads the ledger for all expire after that time.
C12_ExpireFirst ==
    [][\A t \in Ticks :
          /\ IsExpireStep(t) =>
                /\ history' = history
                /\ \A p \in rows :
                      IF db[p].status \in {"pending", "partially_paid"}
                         /\ db[p].expiration <= tick'[t].now
                      THEN db'[p].status = "expired"
                      ELSE db'[p] = db[p]
          /\ \A i \in 1..Len(tick'[t].queue) :
                db[tick'[t].queue[i].id].expiration > tick'[t].now]_vars

\* C12 witness: a tick that started at the expiration of a partially paid
\* payment has expired it and goes on without it.
C12_Witness ==
    \E t \in Ticks, p \in Payments :
        /\ tick[t].pc = "idle" /\ tick[t].now >= db[p].expiration
        /\ db[p].status = "expired"
        /\ Balance(p) = 40 /\ db[p].transaction_hash # 0

\* The step is a step of sweep run s.
IsSweepStep(s) == sweep'[s] # sweep[s]

\* The payments of a selection that pass the checks of the loop: a positive
\* amount and a stored address that is the payment's own.
Projected(selection) ==
    {p \in selection : db[p].amount > 0 /\ db[p].stellar_address # ForeignAddress}

RECURSIVE SumAmount(_)
SumAmount(S) ==
    IF S = {} THEN 0
    ELSE LET p == CHOOSE x \in S : TRUE IN db[p].amount + SumAmount(S \ {p})

\* The reasons of `skipped` that come from a check of the row, not a failure.
CheckReasons == {"Invalid amount", "Derived address mismatch"}

\* Run sw met no failure of the ledger or of the store.
NoFailure(sw) == \A i \in 1..Len(sw.skipped) : sw.skipped[i].reason \in CheckReasons

\* The payments of its selection that run sw is done with.
Done(sw) == sw.selected \ {sw.queue[i].id : i \in 1..Len(sw.queue)}

C14_ErrorsAreSkipped ==
    \A s \in Sweeps :
        LET sw == sweep[s]
            ids == {sw.skipped[i].paymentId : i \in 1..Len(sw.skipped)}
        IN  /\ sw.addressesSwept + Len(sw.skipped) = Cardinality(Done(sw))
            /\ Cardinality(ids) = Len(sw.skipped)
            /\ ids \subseteq Done(sw)
            /\ sw.dryRun \/ sw.addressesSwept = Len(sw.txHashes)
            /\ \A p \in Done(sw) :
                  db[p].amount <= 0 =>
                      \E i \in 1..Len(sw.skipped) :
                          sw.skipped[i] = [paymentId |-> p, reason |-> "Invalid amount"]
            /\ sw.pc = "idle" => sw.queue = <<>>

\* C14 witness: a run over one payment of amount 0 and one valid payment has
\* ended with 1 swept and 1 skipped.
C14_Witness ==
    \E s \in Sweeps :
        /\ sweep[s].pc = "idle" /\ ~sweep[s].dryRun
        /\ Cardinality(sweep[s].selected) = 2
        /\ Len(sweep[s].skipped) = 1 /\ sweep[s].skipped[1].reason = "Invalid amount"
        /\ sweep[s].addressesSwept = 1 /\ Len(sweep[s].txHashes) = 1
        /\ db[sweep[s].txHashes[1][1]].swept

\* C15: the limit in force is positive; a run selects min(limit, number of
\* eligible payments) payments, all of them eligible; no step of the run
\* touches a payment outside its selection.
C15_LimitBounds ==
    [][\A s \in Sweeps :
          /\ (sweep[s].pc = "idle" /\ IsSweepStep(s))
                => sweep'[s].limit > 0
          /\ (sweep[s].pc = "find" /\ IsSweepStep(s))
                => /\ sweep'[s].selected \subseteq Eligible
                   /\ Cardinality(sweep'[s].selected)
                         = Min(sweep[s].limit, Cardinality(Eligible))
                   /\ Len(sweep'[s].queue) = Cardinality(sweep'[s].selected)
          /\ (sweep[s].pc \notin {"idle", "find"} /\ IsSweepStep(s))
                => \A p \in rows \ sweep[s].selected :
                      db'[p] = db[p] /\ history'[p] = history[p]]_vars

\* C15 witness: a run of limit 1 swept one payment and another payment is
\* left unswept and eligible.
C15_Witness ==
    \E s \in Sweeps :
        /\ sweep[s].pc = "idle" /\ sweep[s].limit = 1 /\ ~sweep[s].dryRun
        /\ Len(sweep[s].txHashes) = 1 /\ db[sweep[s].txHashes[1][1]].swept
        /\ \E q \in rows \ sweep[s].selected : q \in Eligible /\ ~db[q].swept

C18_SweptOnce ==
    [][\A p \in Payments :
          /\ db[p].swept => db'[p].swept
          /\ (db'[p].swept # db[p].swept \/ db'[p].sweep_tx_hash # db[p].sweep_tx_hash)
                => \E s \in Sweeps :
                      /\ sweep[s].pc = "update" /\ IsSweepStep(s)
                      /\ Head(sweep[s].queue).id = p
                      /\ db'[p].swept /\ db'[p].sweep_tx_hash = sweep[s].hash
                      /\ sweep[s].hash \in 1..Len(history[p])
                      /\ history[p][sweep[s].hash].kind = "out"
          /\ db'[p].swept <=> db'[p].sweep_tx_hash # 0]_vars

\* C18 witness: a payment the observer confirmed and verified is swept, its
\* sweep_tx_hash being the transfer to the vault on the ledger.
C18_Witness ==
    \E p \in Payments :
        /\ db[p].swept /\ db[p].sweep_tx_hash # 0
        /\ history[p][db[p].sweep_tx_hash].kind = "out"
        /\ verifyCalls[p] > 0

\* The step is the submission of run s.
IsSubmitStep(s) == sweep[s].pc = "submit" /\ IsSweepStep(s)

\* The entries of skipped of run sw that follow a submission.
AfterSubmit(sw) ==
    {i \in 1..Len(sw.skipped) : sw.skipped[i].reason \in {"submit failed", "update failed"}}

\* C19: a submission changes the ledger of one address only, the address of
\* the payment at hand, by at most one transfer, of the amount of that
\* payment; a run submits once for each payment it tries to sweep.
C19_OneTransferPerTx ==
    [][\A s \in Sweeps :
          /\ IsSubmitStep(s) =>
                LET p == Head(sweep[s].queue).id
                IN  /\ \A q \in Payments : q # p => history'[q] = history[q]
                    /\ \/ history'[p] = history[p]
                       \/ history'[p] = Append(history[p],
                                               [kind |-> "out", amount |-> db[p].amount])
                    /\ sweep'[s].submitted \subseteq sweep[s].submitted \cup {p}
                    /\ db[p].stellar_address = p
          /\ Cardinality(sweep'[s].submitted)
                = Len(sweep'[s].txHashes) + Cardinality(AfterSubmit(sweep'[s]))
                  + (IF sweep'[s].pc = "update" THEN 1 ELSE 0)]_vars

\* C19 witness: one run swept two payments, each by a transfer of its own.
C19_Witness ==
    \E s \in Sweeps :
        /\ sweep[s].pc = "idle" /\ Len(sweep[s].txHashes) = 2
        /\ \A p \in Payments : AcceptedSweeps(p) = 1 /\ db[p].swept

\* C20: with more eligible payments than the limit, a run that selects p2,
\* which the observer confirmed after p1, selects p1 as well.
C20_OldestConfirmedFirst ==
    [][\A s \in Sweeps :
          (/\ sweep[s].pc = "find" /\ IsSweepStep(s)
           /\ Cardinality(Eligible) > sweep[s].limit
           /\ "p2" \in sweep'[s].selected)
              => "p1" \in sweep'[s].selected]_vars

\* The columns verify_payment is no party to.
FrameColumns(row) ==
    <<row.amount, row.expiration, row.status, row.last_paging_token, row.transaction_hash,
      row.stellar_address, row.swept, row.sweep_tx_hash>>

\* A step of a verify_payment call: the calls change and none is added.
IsVerifyStep == calls' # calls /\ Len(calls') = Len(calls)

\* C21: a call of verify_payment invokes the contract at most 3 times and
\* ends by returning true or false; when it returned true the row has
\* onchain_verified = true and no verification_error and fewer than 3
\* attempts failed; when it returned false, 3 attempts failed.
C21_ThreeAttemptsThenFalse ==
    \A i \in 1..Len(calls) :
        LET c == calls[i]
        IN  /\ c.invoked <= MAX_RETRIES
            /\ c.attempt <= MAX_RETRIES
            /\ c.pc = "done" => c.result \in {"true", "false"}
            /\ c.result = "true" =>
                   /\ c.attempt < MAX_RETRIES
                   /\ db[c.payment].onchain_verified
                   /\ db[c.payment].verification_error = NoError
            /\ (c.result = "false" /\ contractId) => c.attempt = MAX_RETRIES

\* C22: a call of verify_payment whose 3 attempts failed has stored the
\* error of the last attempt in verification_error, has written to the
\* manual intervention queue once, has left onchain_verified unset and has
\* returned false, and there is no other call for the payment.
C22_ExhaustedIsRecorded ==
    \A i \in 1..Len(calls) :
        LET c == calls[i]
        IN  (c.pc = "done" /\ c.attempt = MAX_RETRIES) =>
               /\ c.result = "false"
               /\ db[c.payment].verification_error = c.error
               /\ c.error.attempt = MAX_RETRIES
               /\ manual[c.payment] = 1
               /\ ~db[c.payment].onchain_verified
               /\ \A j \in 1..Len(calls) : j # i => calls[j].payment # c.payment

\* C23: no step of a verify_payment call changes the status, the
\* last_paging_token, the transaction_hash, the swept flag or the
\* sweep_tx_hash of a payment, so the payments the sweep selects are the
\* same after the step as before; a call that returns at once because no
\* contract is configured writes nothing at all.
C23_VerifyFrame ==
    [][/\ IsVerifyStep =>
            /\ \A p \in Payments : FrameColumns(db'[p]) = FrameColumns(db[p])
            /\ Eligible' = Eligible
       /\ ~contractId => \A p \in Payments :
                            /\ db'[p].onchain_verified = db[p].onchain_verified
                            /\ db'[p].contract_tx_hash = db[p].contract_tx_hash
                            /\ db'[p].verification_error = db[p].verification_error]_vars

\* A payment whose verification used up its attempts and recorded the
\* error, and which a sweep run has swept since.
C23_Witness ==
    \E i \in 1..Len(calls) :
        LET p == calls[i].payment
        IN  /\ calls[i].result = "false" /\ calls[i].attempt = MAX_RETRIES
            /\ db[p].verification_error # NoError
            /\ db[p].status = "confirmed"
            /\ db[p].swept /\ db[p].sweep_tx_hash # 0

\* C24: the polling of one attempt re-polls at most 15 times; an attempt
\* whose transaction failed on-chain counts as a failed attempt; and
\* onchain_verified is set only by an attempt whose polling ended on the
\* status SUCCESS.
C24_VerifiedOnlyWhenFinalized ==
    [][/\ \A i \in 1..Len(calls) : calls[i].retries <= MAX_POLLS
       /\ \A i \in 1..Len(calls) :
             (i <= Len(calls') /\ calls'[i].error.kind = "failed on-chain"
                /\ calls'[i].error # calls[i].error)
                => calls'[i].attempt = calls[i].attempt + 1
       /\ \A p \in Payments :
             (db'[p].onchain_verified /\ ~db[p].onchain_verified) =>
                \E i \in 1..Len(calls) :
                   /\ calls[i].payment = p /\ calls[i].pc = "persist"
                   /\ calls[i].status = "SUCCESS"]_vars

\* The tick's position after it left the payment at the head of its queue.
MovedOn(t) ==
    /\ tick'[t].queue = Tail(tick[t].queue)
    /\ tick'[t].pc = IF Tail(tick[t].queue) = <<>> THEN "idle" ELSE "load"

\* C25: when the emission of the payment-settled event fails after the
\* update of the row, the row stays as the update left it and the tick goes
\* on with the next payment of its list; and no step of a verify_payment
\* call, failing or not, changes a tick or the status, the
\* last_paging_token or the transaction_hash of a payment.
C25_DispatchFailureIsIsolated ==
    [][/\ \A t \in Ticks :
             (tick[t].pc = "emit" /\ tick'[t].err) =>
                /\ db' = db
                /\ db[Head(tick[t].queue).id].status \in SettledStatuses
                /\ MovedOn(t)
       /\ IsVerifyStep =>
             /\ tick' = tick
             /\ \A p \in Payments : FrameColumns(db'[p]) = FrameColumns(db[p])]_vars

\* A tick that confirmed one payment, whose emission for it failed and
\* whose verify_payment call for it rejected, and which is now at the next
\* payment of its list.
C25_Witness ==
    \E t \in Ticks, p \in Payments, q \in Payments :
        /\ q # p
        /\ tick[t].pc = "load" /\ tick[t].err /\ tick[t].verified
        /\ Head(tick[t].queue).id = q
        /\ db[p].status = "confirmed" /\ db[p].transaction_hash # 0
        /\ db[p].last_paging_token # 0
        /\ events[p] = 0 /\ verifyCalls[p] = 1
        /\ \E i \in 1..Len(calls) : calls[i].payment = p /\ calls[i].result = "threw"

\* C26: when the read of the balance of a payment's address fails, the
\* store is left as it is and the tick goes on with the next payment of its
\* list; when the answer is 404 the catch block reports no error.
C26_ReadFailureIsIsolated ==
    [][\A t \in Ticks :
          (tick[t].pc = "load" /\ tick'[t].err /\ tick'[t].queue # tick[t].queue) =>
             /\ db' = db
             /\ MovedOn(t)
             /\ tick'[t].caught = "404" => ~tick'[t].reported
             /\ tick'[t].caught = "error" => tick'[t].reported]_vars

\* A tick whose balance read for one pending payment was answered 404, which
\* reported nothing, left the payment pending and is at the next payment.
C26_Witness ==
    \E t \in Ticks, p \in Payments, q \in Payments :
        /\ q # p
        /\ tick[t].pc = "load" /\ tick[t].caught = "404" /\ ~tick[t].reported
        /\ Head(tick[t].queue).id = q
        /\ p \notin tick[t].clean
        /\ db[p].status = "pending" /\ db[p].last_paging_token = 0
        /\ db[q].status = "pending" /\ history[q] # <<>>

\* The steps of a tick at the payment at the head of its queue.
IsQueryStep(t) == tick[t].pc = "query" /\ tick'[t].pc = "update"
IsWriteStep(t) ==
    /\ tick[t].pc = "update"
    /\ tick'[t].pc = "emit" \/ tick'[t].queue # tick[t].queue

C28_CursorWrittenWithStatus ==
    [][\A t \in Ticks :
          IsWriteStep(t) =>
             LET cur == Head(tick[t].queue)
                 p == cur.id
                 tok == tick[t].latestPagingToken
                 hash == tick[t].latestTxHash
                 received == tick[t].totalReceived
                 sameStatus == Classify(received, Amount(p)) \in {"none", cur.status}
             IN  /\ db'[p].status # db[p].status =>
                       /\ db'[p].last_paging_token = tok
                       /\ hash # 0 => db'[p].transaction_hash = hash
                 /\ (tok # 0 /\ tok # cur.last_paging_token) =>
                       \/ db'[p].last_paging_token = tok
                       \/ tick'[t].err /\ db' = db
                 /\ (sameStatus /\ hash = 0 /\ tok = cur.last_paging_token) => db' = db]_vars

\* A pending payment that received nothing in its asset, whose cursor a
\* tick moved to a record in another asset.
C28_Witness ==
    \E p \in Payments :
        /\ db[p].status = "pending" /\ db[p].transaction_hash = 0
        /\ db[p].last_paging_token # 0
        /\ Balance(p) = 0 /\ history[p] # <<>>

\* The records of a history that are payments in the expected asset.
UsdcOnly(h) == SelectSeq(h, LAMBDA r : r.kind # "other")

\* C29: the total a tick reads is the balance in the expected asset, which
\* records in another asset leave as it is; the hash the tick keeps is that
\* of the newest record of its page that is a payment in the expected
\* asset; and the transaction_hash a tick writes is never that of a record
\* in another asset.
C29_OnlyExpectedAssetCounts ==
    [][\A t \in Ticks :
          LET cur == Head(tick[t].queue)
              p == cur.id
              page == HistoryPage(p, cur.last_paging_token)
              usdc == {i \in 1..Len(page) : history[p][page[i]].kind # "other"}
          IN  /\ (tick[t].pc = "load" /\ tick'[t].pc = "query") =>
                    /\ tick'[t].totalReceived = BalanceOf(UsdcOnly(history[p]))
                    /\ tick'[t].totalReceived =
                          BalanceOf(history[p] \o <<[kind |-> "other", amount |-> 100]>>)
              /\ IsQueryStep(t) =>
                    tick'[t].latestTxHash =
                       IF usdc = {} THEN 0
                       ELSE page[CHOOSE i \in usdc : \A j \in usdc : i <= j]
              /\ (IsWriteStep(t) /\ db'[p].transaction_hash # db[p].transaction_hash) =>
                    history[p][db'[p].transaction_hash].kind # "other"]_vars

\* A payment that received 40 in its asset and then 100 in another asset:
\* a tick has made it partially_paid with the hash of the transfer of 40.
C29_Witness ==
    \E p \in Payments :
        /\ history[p] = <<[kind |-> "in", amount |-> 40], [kind |-> "other", amount |-> 100]>>
        /\ db[p].status = "partially_paid"
        /\ db[p].transaction_hash = 1
        /\ db[p].last_paging_token # 0

\* C30: whatever logSweepTrigger returned, the run goes on to select the
\* unswept settled payments up to its limit; the run ends by returning its
\* result whatever the audit store did with the completion, and the
\* recording of the completion leaves the result and the store as they are.
C30_AuditFailureIsIsolated ==
    [][\A s \in Sweeps :
          /\ (audit[s].stage # "running" /\ audit'[s].stage = "running")
                => /\ sweep'[s].pc = "find"
                   /\ db' = db
          /\ (audit[s].stage = "running" /\ sweep[s].pc = "find" /\ IsSweepStep(s))
                => /\ sweep'[s].selected \subseteq Eligible
                   /\ Cardinality(sweep'[s].selected)
                         = Min(sweep[s].limit, Cardinality(Eligible))
          /\ (audit[s].stage = "running" /\ audit'[s].stage # "running")
                => /\ audit'[s].stage = "returned"
                   /\ sweep[s].pc = "idle"
                   /\ sweep' = sweep /\ db' = db /\ history' = history
                   /\ audit[s].log = "null" => audit'[s].completion = "skipped"]_vars

\* A run whose logSweepTrigger failed in all 3 attempts and which has
\* swept a payment and returned its result.
C30_Witness ==
    \E s \in Sweeps, p \in Payments :
        /\ audit[s].stage = "returned" /\ audit[s].log = "null"
        /\ audit[s].attempts = MAX_AUDIT_ATTEMPTS
        /\ sweep[s].pc = "idle" /\ ~sweep[s].dryRun
        /\ sweep[s].addressesSwept = 1 /\ sweep[s].selected = {p}
        /\ db[p].swept /\ db[p].sweep_tx_hash # 0

\* The steps of a sweep run with its audit trail.
IsTriggerStep(s) == audit[s].stage # "running" /\ audit'[s].stage = "running"
IsReturnStep(s) == audit[s].stage = "running" /\ audit'[s].stage = "returned"

\* The entry of a run as the claim describes it at the return of the run.
EntryAsClaimed(s) ==
    LET e == audit'[s].entry
        failed == sweep[s].addressesSwept = 0 /\ Len(sweep[s].skipped) >= 1
    IN  /\ e.state = IF failed THEN "failed" ELSE "completed"
        /\ e.addresses_swept = sweep[s].addressesSwept
        /\ e.total_amount = sweep[s].total
        /\ failed <=> e.failure_reason # <<>>

C33_ValidIsEventuallySwept ==
    \A p \in Payments :
        (p \in Eligible /\ ValidAmount(db[p].amount)
           /\ db[p].stellar_address = DerivedAddress(p)) ~> db[p].swept

\* C34: once stopPaymentMonitor has returned, and until startPaymentMonitor
\* is called again, no interval calls a tick; the ticks in flight go on.
C34_NoTickAfterStop ==
    [][\A t \in Ticks :
          (IsExpireStep(t) /\ monitor' = monitor) => ~monitor.stopped]_vars

\* C35: over the life of a payment the ticks call verify_payment for it at
\* most once and emit PAYMENT_CONFIRMED for it at most once.
C35_DispatchedAtMostOnce ==
    \A p \in Payments : verifyCalls[p] <= 1 /\ events[p] <= 1

\* C36: a verify_payment call does not invoke the contract again once one
\* of its invocations has been seen finalized with status SUCCESS.
C36_NoInvocationAfterSuccess ==
    [][\A i \in 1..Len(calls) :
          calls'[i].invoked > calls[i].invoked => ~calls[i].finalized]_vars

\* C37: a payment whose address received its amount in full before its
\* expiration is never marked expired.
C37_FundedNeverExpires ==
    \A p \in rows : Balance(p) >= Amount(p) => db[p].status # "expired"

\* C38: at the step that marks a payment swept, the balance of its address
\* in the expected asset is 0.
C38_SweptLeavesNothing ==
    [][\A p \in Payments :
          (db'[p].swept /\ ~db[p].swept) => BalanceOf(history'[p]) = 0]_vars

\* C39: for a run that has returned, addresses_swept plus the length of
\* skipped is the number of payments selected; no payment is in skipped
\* twice, and none is in skipped and in tx_hashes; total_amount is the sum of
\* the amounts of the selected payments that are not in skipped; a run that
\* is not dry has one hash for each of these, and they are the payments of
\* its selection that are swept in the store; a dry run has no hash.
C39_ResultAddsUp ==
    \A s \in Sweeps :
        LET sw == sweep[s]
            ids == {sw.skipped[i].paymentId : i \in 1..Len(sw.skipped)}
            hashed == {sw.txHashes[i][1] : i \in 1..Len(sw.txHashes)}
            counted == sw.selected \ ids
        IN  (sw.pc = "idle" /\ sw.limit # 0) =>
               /\ sw.addressesSwept + Len(sw.skipped) = Cardinality(sw.selected)
               /\ Cardinality(ids) = Len(sw.skipped)
               /\ ids \cap hashed = {}
               /\ sw.total = SumAmount(counted)
               /\ sw.addressesSwept = Cardinality(counted)
               /\ ~sw.dryRun =>
                     /\ Len(sw.txHashes) = sw.addressesSwept
                     /\ hashed = counted
                     /\ {p \in sw.selected : db[p].swept} = counted
               /\ sw.dryRun => sw.txHashes = <<>>

\* A run that is not dry over two payments has returned with one payment
\* swept and the other skipped because the ledger refused its transfer.
C39_Witness ==
    \E s \in Sweeps :
        /\ sweep[s].pc = "idle" /\ ~sweep[s].dryRun
        /\ Cardinality(sweep[s].selected) = 2
        /\ sweep[s].addressesSwept = 1 /\ sweep[s].total = 100
        /\ Len(sweep[s].txHashes) = 1
        /\ Len(sweep[s].skipped) = 1 /\ sweep[s].skipped[1].reason = "submit failed"

====
